---- MODULE Spec2Model ----
(***************************************************************************)
(* Model of the voice-capture session of VoiceRecorder.tsx: the React      *)
(* state of the component, its reference cells, the browser objects the    *)
(* component drives (media stream, MediaRecorder, AudioContext,            *)
(* SpeechRecognition, timers, animation frames) and the closures that the  *)
(* registered callbacks captured at the render that created them.          *)
(*                                                                         *)
(* A function component runs once per render, so stopRecording, cleanup    *)
(* and the recognizer handlers exist once per render and read the          *)
(* isRecording and transcript of that render. A callback keeps the         *)
(* instance it was registered with:                                        *)
(*   - the buttons carry the instance of the last committed render;        *)
(*   - the recognizer handlers carry the instance of the render whose      *)
(*     effect run created the recognizer (dependencies [onInputChange,     *)
(*     isRecording]; onInputChange is a state setter and never changes);   *)
(*   - the duration interval carries the instance of the render in which   *)
(*     isRecording became true.                                            *)
(* Reference cells are shared by all instances. A state update made in a   *)
(* click is rendered, with its effects, before the click returns; an       *)
(* update made in a timer, promise or recognizer callback is rendered in   *)
(* a later task (RenderCommit), and other events may run before it.        *)
(*                                                                         *)
(* Browser behaviour the handlers depend on: SpeechRecognition.start()     *)
(* throws on a recognizer that has not ended; after stop() a recognizer    *)
(* may still deliver results and errors before it signals end;             *)
(* MediaRecorder.stop() queues the stop event, and on an inactive recorder *)
(* it throws InvalidStateError or does nothing, depending on the browser.  *)
(*                                                                         *)
(* Strings are sequences of one-character strings; time is counted in      *)
(* milliseconds and advances in steps of TicksPerStep polling periods, so  *)
(* only every TicksPerStep-th run of the interval callback is a step.      *)
(***************************************************************************)
EXTENDS Integers, Sequences, FiniteSets, TLC

\* ---------------------------------------------------------------- bounds
\* start requests (clicks on the microphone button) in one behaviour
MaxStarts == 2
\* recognizer result / error events in one behaviour
MaxRecEvents == 2
\* entries of event.results in one recognizer event
MaxBatch == 2
\* recognizer batches folded in one behaviour of SpecFold
MaxFoldBatches == 3
\* frequency bins read by one level sample (analyser.frequencyBinCount)
BinCount == 2
\* polling periods of the duration interval that pass in one clock step
TicksPerStep == 200

\* ------------------------------------------------------ program constants
SILENCE_THRESHOLD == 2000
MAX_RECORDING_DURATION == 60000
POLL_INTERVAL == 100
VOLUME_CEILING == 128

\* ---------------------------------------------------------------- strings
EmptyStr == << >>

RECURSIVE TrimStart(_)
TrimStart(s) ==
    IF s = << >> THEN s
    ELSE IF Head(s) = " " THEN TrimStart(Tail(s)) ELSE s

RECURSIVE TrimEnd(_)
TrimEnd(s) ==
    IF s = << >> THEN s
    ELSE IF s[Len(s)] = " " THEN TrimEnd(SubSeq(s, 1, Len(s) - 1)) ELSE s

\* String.prototype.trim
Trim(s) == TrimEnd(TrimStart(s))

\* truthiness of a JavaScript string
Truthy(s) == s # << >>

\* ------------------------------------------------- recognizer result fold
\* the texts a single recognition alternative may carry
Texts == {<< >>, <<"a">>, <<"b">>}
Fragments == [transcript : Texts, isFinal : BOOLEAN]
Batches == UNION {[1..n -> Fragments] : n \in 1..MaxBatch}
\* the events a recognizer delivers during a session: one alternative that
\* is empty, blank or a word
SessionTexts == {<< >>, <<" ">>, <<"a">>}
SessionBatches == {<<[transcript |-> x, isFinal |-> f]>> :
                      x \in SessionTexts, f \in BOOLEAN}

\* the loop of onresult: finalTranscript += ... over results[i], i >= from
RECURSIVE FinalTranscript(_, _)
FinalTranscript(results, i) ==
    IF i > Len(results) THEN EmptyStr
    ELSE (IF results[i].isFinal THEN results[i].transcript ELSE EmptyStr)
            \o FinalTranscript(results, i + 1)

RECURSIVE InterimTranscript(_, _)
InterimTranscript(results, i) ==
    IF i > Len(results) THEN EmptyStr
    ELSE (IF results[i].isFinal THEN EmptyStr ELSE results[i].transcript)
            \o InterimTranscript(results, i + 1)

\* a fold that lets the interim text follow the final text
CurrentTranscript_Leaky(results) ==
    FinalTranscript(results, 1) \o InterimTranscript(results, 1)

\* const currentTranscript = finalTranscript || interimTranscript
CurrentTranscript(results) ==
    IF Truthy(FinalTranscript(results, 1))
    THEN FinalTranscript(results, 1)
    ELSE InterimTranscript(results, 1)

\* --------------------------------------------------------------- universe
Attempts == 1..MaxStarts
\* one recognizer at mount and one per change of isRecording
MaxRecs == 1 + 2 * MaxStarts
RecIds == 1..MaxRecs
Step == TicksPerStep * POLL_INTERVAL
Min(a, b) == IF a < b THEN a ELSE b
Max(a, b) == IF a > b THEN a ELSE b

VARIABLES
    \* React state (useState)
    isRecording, transcript, isSpeaking, volume, recordingDuration,
    \* what the last committed render captured in its closures
    rendered,
    \* reference cells (useRef); 0 is null
    mediaRecorderRef, recognitionRef, silenceTimeoutRef, audioContextRef,
    animationFrameRef, durationIntervalRef, dataArrayRef,
    \* browser objects
    streams, recorders, contexts, recs, timers, frames, interval, onstopQ,
    attempts,
    \* callbacks of the caller: calls of onRecordingComplete, last argument
    \* and number of calls of onInputChange
    completed, preview, nInputChanges,
    \* bookkeeping of the verification: counters, clocks and the last step
    session, nEvents, sinceUpdate, sessionAge, fragmentsArrived, sessionRec,
    stopCalls, lastOp, finalsSeen, nFolds, foldsWithFinal, lastFinals,
    lastInterims

vars == <<isRecording, transcript, isSpeaking, volume, recordingDuration,
          rendered, mediaRecorderRef, recognitionRef, silenceTimeoutRef,
          audioContextRef, animationFrameRef, durationIntervalRef,
          dataArrayRef, streams, recorders, contexts, recs, timers, frames, interval, onstopQ,
          attempts, completed, preview, nInputChanges, session, nEvents, sinceUpdate,
          sessionAge, fragmentsArrived, sessionRec, stopCalls, lastOp,
          finalsSeen, nFolds, foldsWithFinal, lastFinals, lastInterims>>

\* the program state as one record, so that the handlers compose
Cur ==
    [isRecording |-> isRecording, transcript |-> transcript,
     isSpeaking |-> isSpeaking, volume |-> volume,
     recordingDuration |-> recordingDuration, rendered |-> rendered,
     mediaRecorderRef |-> mediaRecorderRef, recognitionRef |-> recognitionRef,
     silenceTimeoutRef |-> silenceTimeoutRef,
     audioContextRef |-> audioContextRef,
     animationFrameRef |-> animationFrameRef,
     durationIntervalRef |-> durationIntervalRef,
     dataArrayRef |-> dataArrayRef, streams |-> streams,
     recorders |-> recorders, contexts |-> contexts, recs |-> recs,
     timers |-> timers, frames |-> frames, interval |-> interval,
     onstopQ |-> onstopQ, attempts |-> attempts, completed |-> completed,
     preview |-> preview, nInputChanges |-> nInputChanges,
     session |-> session, nEvents |-> nEvents,
     sinceUpdate |-> sinceUpdate, sessionAge |-> sessionAge,
     fragmentsArrived |-> fragmentsArrived, sessionRec |-> sessionRec,
     stopCalls |-> stopCalls]

Commit(s) ==
    /\ isRecording' = s.isRecording
    /\ transcript' = s.transcript
    /\ isSpeaking' = s.isSpeaking
    /\ volume' = s.volume
    /\ recordingDuration' = s.recordingDuration
    /\ rendered' = s.rendered
    /\ mediaRecorderRef' = s.mediaRecorderRef
    /\ recognitionRef' = s.recognitionRef
    /\ silenceTimeoutRef' = s.silenceTimeoutRef
    /\ audioContextRef' = s.audioContextRef
    /\ animationFrameRef' = s.animationFrameRef
    /\ durationIntervalRef' = s.durationIntervalRef
    /\ dataArrayRef' = s.dataArrayRef
    /\ streams' = s.streams
    /\ recorders' = s.recorders
    /\ contexts' = s.contexts
    /\ recs' = s.recs
    /\ timers' = s.timers
    /\ frames' = s.frames
    /\ interval' = s.interval
    /\ onstopQ' = s.onstopQ
    /\ attempts' = s.attempts
    /\ completed' = s.completed
    /\ preview' = s.preview
    /\ nInputChanges' = s.nInputChanges
    /\ session' = s.session
    /\ nEvents' = s.nEvents
    /\ sinceUpdate' = s.sinceUpdate
    /\ sessionAge' = s.sessionAge
    /\ fragmentsArrived' = s.fragmentsArrived
    /\ sessionRec' = s.sessionRec
    /\ stopCalls' = s.stopCalls

NoInterval == [on |-> FALSE, elapsed |-> 0, due |-> FALSE, transcript |-> EmptyStr]

Init ==
    /\ isRecording = FALSE
    /\ transcript = EmptyStr
    /\ isSpeaking = FALSE
    /\ volume = 0
    /\ recordingDuration = 0
    /\ rendered = [isRecording |-> FALSE, transcript |-> EmptyStr]
    /\ mediaRecorderRef = 0
    /\ recognitionRef = 1
    /\ silenceTimeoutRef = 0
    /\ audioContextRef = 0
    /\ animationFrameRef = 0
    /\ durationIntervalRef = 0
    /\ dataArrayRef = << >>
    /\ streams = [a \in Attempts |-> "none"]
    /\ recorders = [a \in Attempts |-> "none"]
    /\ contexts = [a \in Attempts |-> "none"]
    /\ recs = [r \in RecIds |->
                 IF r = 1
                 THEN [status |-> "idle", isRecording |-> FALSE,
                       transcript |-> EmptyStr]
                 ELSE [status |-> "none", isRecording |-> FALSE,
                       transcript |-> EmptyStr]]
    /\ timers = {}
    /\ frames = {}
    /\ interval = NoInterval
    /\ onstopQ = {}
    /\ attempts = [a \in Attempts |-> "none"]
    /\ completed = << >>
    /\ preview = EmptyStr
    /\ nInputChanges = 0
    /\ session = 0
    /\ nEvents = 0
    /\ sinceUpdate = 0
    /\ sessionAge = 0
    /\ fragmentsArrived = FALSE
    /\ sessionRec = 0
    /\ stopCalls = [a \in Attempts |-> 0]
    /\ lastOp = [op |-> "init", arg |-> 0]
    /\ finalsSeen = EmptyStr
    /\ nFolds = 0
    /\ foldsWithFinal = 0
    /\ lastFinals = EmptyStr
    /\ lastInterims = EmptyStr

\* ------------------------------------------------------- browser objects
\* SpeechRecognition.stop(): a started recognizer stops listening and may
\* still return a result before it signals end; otherwise nothing happens
RecognitionStop(s) ==
    LET r == s.recognitionRef IN
    IF s.recs[r].status = "started"
    THEN [s EXCEPT !.recs[r].status = "stopping"]
    ELSE s

\* clearTimeout(silenceTimeoutRef.current); the cell keeps the handle
ClearSilenceTimeout(s) ==
    IF s.silenceTimeoutRef # 0
    THEN [s EXCEPT !.timers = {t \in s.timers : t.id # s.silenceTimeoutRef}]
    ELSE s

\* ---------------------------------------------------------------- cleanup
cleanup(s) ==
    LET s1 == RecognitionStop(s)
        s2 == ClearSilenceTimeout(s1)
        s3 == IF s2.animationFrameRef # 0
              THEN [s2 EXCEPT !.frames = s2.frames \ {s2.animationFrameRef}]
              ELSE s2
        s4 == IF s3.durationIntervalRef # 0
              THEN [s3 EXCEPT !.interval = NoInterval]
              ELSE s3
        s5 == IF s4.audioContextRef # 0
                 /\ s4.contexts[s4.audioContextRef] # "closed"
              THEN [s4 EXCEPT !.contexts[s4.audioContextRef] = "closed"]
              ELSE s4
    IN [s5 EXCEPT !.recordingDuration = 0]

\* ---------------------------------------------------------- stopRecording
\* isRec and text are the isRecording and transcript of the render whose
\* stopRecording this is; throws is the browser's answer to stop() on a
\* MediaRecorder that is already inactive (InvalidStateError or nothing)
stopRecording(s, isRec, text, throws) ==
    IF s.mediaRecorderRef # 0 /\ isRec
    THEN LET a == s.mediaRecorderRef
             s1 == [s EXCEPT !.stopCalls[a] = Min(s.stopCalls[a] + 1, 2)]
         IN IF s.recorders[a] # "recording" /\ throws
            THEN s1
            ELSE LET s2 == IF s1.recorders[a] = "recording"
                           THEN [s1 EXCEPT !.recorders[a] = "inactive",
                                           !.onstopQ = s1.onstopQ \cup {a}]
                           ELSE s1
                     s3 == ClearSilenceTimeout(RecognitionStop(s2))
                     s4 == [s3 EXCEPT !.isRecording = FALSE,
                                      !.isSpeaking = FALSE]
                     s5 == IF Truthy(Trim(text))
                           THEN [s4 EXCEPT !.completed =
                                   Append(s4.completed,
                                          [session |-> s4.session,
                                           text |-> text])]
                           ELSE s4
                 IN [s5 EXCEPT !.transcript = EmptyStr]
    ELSE s

\* ------------------------------------------------- recognition callbacks
\* an onresult that arms a new silence timer without cancelling the old one
onresult_NoClear(s, r, results, resultIndex) ==
    LET batch == SubSeq(results, resultIndex + 1, Len(results))
        currentTranscript == CurrentTranscript(batch)
        id == s.nEvents + 1
    IN [s EXCEPT !.transcript = currentTranscript,
                 !.preview = currentTranscript,
                 !.nInputChanges = s.nInputChanges + 1,
                 !.silenceTimeoutRef = id,
                 !.timers = s.timers \cup
                    {[id |-> id, remaining |-> SILENCE_THRESHOLD,
                      text |-> currentTranscript, rec |-> r]}]

\* an onresult that appends the text of the batch to the transcript
onresult_Append(s, r, results, resultIndex) ==
    LET batch == SubSeq(results, resultIndex + 1, Len(results))
        currentTranscript == s.transcript \o CurrentTranscript(batch)
        s1 == [s EXCEPT !.transcript = currentTranscript,
                        !.preview = currentTranscript,
                        !.nInputChanges = s.nInputChanges + 1]
        s2 == ClearSilenceTimeout(s1)
        id == s.nEvents + 1
    IN [s2 EXCEPT !.silenceTimeoutRef = id,
                  !.timers = s2.timers \cup
                     {[id |-> id, remaining |-> SILENCE_THRESHOLD,
                       text |-> currentTranscript, rec |-> r]}]

\* recognition.onresult of recognizer r for the event (results, resultIndex)
onresult(s, r, results, resultIndex) ==
    LET batch == SubSeq(results, resultIndex + 1, Len(results))
        currentTranscript == CurrentTranscript(batch)
        s1 == [s EXCEPT !.transcript = currentTranscript,
                        !.preview = currentTranscript,
                        !.nInputChanges = s.nInputChanges + 1]
        s2 == ClearSilenceTimeout(s1)
        id == s.nEvents + 1
    IN [s2 EXCEPT !.silenceTimeoutRef = id,
                  !.timers = s2.timers \cup
                     {[id |-> id, remaining |-> SILENCE_THRESHOLD,
                       text |-> currentTranscript, rec |-> r]}]

\* the callback passed to setTimeout in onresult
silenceTimeout(s, t, throws) ==
    LET s1 == [s EXCEPT !.timers = s.timers \ {t}] IN
    IF Truthy(Trim(t.text))
    THEN stopRecording(s1, s1.recs[t.rec].isRecording,
                       s1.recs[t.rec].transcript, throws)
    ELSE s1

\* recognition.onerror of recognizer r
onerror(s, r, error, throws) ==
    IF error = "no-speech"
    THEN stopRecording(s, s.recs[r].isRecording, s.recs[r].transcript, throws)
    ELSE s

\* recognition.onend of recognizer r; start() on a recognizer that has not
\* ended throws InvalidStateError, which leaves the handler
onend(s, r) ==
    IF s.recs[r].isRecording
    THEN IF s.recs[s.recognitionRef].status = "idle"
         THEN [s EXCEPT !.recs[s.recognitionRef].status = "started"]
         ELSE s
    ELSE s

\* ------------------------------------------------------------ level monitor
\* byte values a frequency bin may hold in the model
Bytes == {0, 1, 19, 20, 38, 39, 127, 128, 129, 254, 255}
Buffers == [1..BinCount -> Bytes]
\* the buffers sampled during a session: silence and full scale
SessionBuffers == {[i \in 1..BinCount |-> 0], [i \in 1..BinCount |-> 255]}

RECURSIVE Sum(_, _)
Sum(buffer, i) == IF i > Len(buffer) THEN 0 ELSE buffer[i] + Sum(buffer, i + 1)

\* the volume 1.0: volumes are kept exact, as the numerator of a fraction
\* whose denominator is VolumeOne
VolumeOne == VOLUME_CEILING * BinCount

\* a normalization that does not clamp
NormalizedVolume_NoClamp(buffer) == Sum(buffer, 1)

\* Math.min(average / 128, 1)
NormalizedVolume(buffer) == Min(Sum(buffer, 1), VolumeOne)

\* normalizedVolume > 0.15
Speaking(v) == v * 100 > 15 * VolumeOne

\* a level sample that cancels the silence timer while speech is detected
checkAudioLevel_ResetsSilence(s, loop, buffer) ==
    LET s1 == IF Speaking(NormalizedVolume(buffer))
              THEN ClearSilenceTimeout(s)
              ELSE s
    IN [s1 EXCEPT !.dataArrayRef = buffer,
                  !.volume = NormalizedVolume(buffer),
                  !.isSpeaking = Speaking(NormalizedVolume(buffer)),
                  !.frames = s.frames \cup {loop},
                  !.animationFrameRef = loop]

\* one run of checkAudioLevel for the sampling loop `loop`; buffer is what
\* getByteFrequencyData writes into the data array
checkAudioLevel(s, loop, buffer) ==
    [s EXCEPT !.dataArrayRef = buffer,
              !.volume = NormalizedVolume(buffer),
              !.isSpeaking = Speaking(NormalizedVolume(buffer)),
              !.frames = s.frames \cup {loop},
              !.animationFrameRef = loop]

\* ----------------------------------------------------------- React render
RenderPending(s) ==
    \/ s.isRecording # s.rendered.isRecording
    \/ s.transcript # s.rendered.transcript

NextRec(s) == Cardinality({r \in RecIds : s.recs[r].status # "none"}) + 1

\* the effect on [onInputChange, isRecording]: a new recognizer whose
\* handlers close over this render
RecognitionEffect(s) ==
    LET r == NextRec(s) IN
    [s EXCEPT !.recs[r] = [status |-> "idle", isRecording |-> s.isRecording,
                           transcript |-> s.transcript],
              !.recognitionRef = r]

\* cleanup of the duration effect
DurationCleanup(s) ==
    IF s.durationIntervalRef # 0
    THEN [s EXCEPT !.interval = NoInterval]
    ELSE s

\* the effect on [isRecording]: the polling interval of the duration cap
DurationEffect(s) ==
    IF s.isRecording
    THEN [s EXCEPT !.interval = [on |-> TRUE, elapsed |-> 0, due |-> FALSE,
                                 transcript |-> s.transcript],
                   !.durationIntervalRef = 1]
    ELSE s

\* commit of a render and the effects it schedules: the closures of the
\* buttons are renewed on every render, the effects run when isRecording
\* differs from the previous commit (cleanups first, then the effects)
Render(s) ==
    LET changed == s.isRecording # s.rendered.isRecording
        s1 == [s EXCEPT !.rendered = [isRecording |-> s.isRecording,
                                      transcript |-> s.transcript]]
    IN IF changed
       THEN DurationEffect(RecognitionEffect(DurationCleanup(cleanup(s1))))
       ELSE s1

\* ---------------------------------------------------------- startRecording
FailPoints == {"none", "MediaRecorder", "AudioContext", "start"}

\* lines 139-150: close a context that is still open, ask for the microphone
startRecordingBegin(s, a) ==
    LET s1 == IF s.audioContextRef # 0
                 /\ s.contexts[s.audioContextRef] # "closed"
              THEN [s EXCEPT !.contexts[s.audioContextRef] = "closed"]
              ELSE s
    IN [s1 EXCEPT !.attempts[a] = "pending"]

\* the catch block
startRecordingCatch(s, a) == [cleanup(s) EXCEPT !.attempts[a] = "failed"]

\* setIsRecording(true), with the bookkeeping of a new session
SetRecordingTrue(s) ==
    IF s.isRecording
    THEN s
    ELSE [s EXCEPT !.isRecording = TRUE,
                   !.session = s.session + 1,
                   !.sessionRec = s.recognitionRef,
                   !.fragmentsArrived = FALSE,
                   !.sessionAge = 0]

\* lines 152-180 after getUserMedia resolved with stream a; failAt names the
\* browser call that throws, if any
startRecordingResume(s, a, failAt, buffer) ==
    LET s1 == [s EXCEPT !.streams[a] = "live"]
        s2 == [s1 EXCEPT !.mediaRecorderRef = a, !.recorders[a] = "inactive"]
        s3 == checkAudioLevel(
                 [s2 EXCEPT !.audioContextRef = a, !.contexts[a] = "running"],
                 a, buffer)
        s4 == [s3 EXCEPT !.recorders[a] = "recording"]
        r == s4.recognitionRef
    IN IF failAt = "MediaRecorder" THEN startRecordingCatch(s1, a)
       ELSE IF failAt = "AudioContext" THEN startRecordingCatch(s2, a)
       ELSE IF failAt = "start" THEN startRecordingCatch(s3, a)
       ELSE IF s4.recs[r].status # "idle" THEN startRecordingCatch(s4, a)
       ELSE SetRecordingTrue([s4 EXCEPT !.recs[r].status = "started",
                                        !.attempts[a] = "ok"])

\* mediaRecorder.onstop of the recorder of attempt a
mediaRecorderOnstop(s, a) ==
    cleanup([s EXCEPT !.streams[a] = "stopped",
                      !.onstopQ = s.onstopQ \ {a}])

\* ---------------------------------------------------------------- actions
FoldIdle ==
    UNCHANGED <<finalsSeen, nFolds, foldsWithFinal, lastFinals, lastInterims>>
Op(name, arg) == [op |-> name, arg |-> arg]

\* a click on the microphone button, shown while the committed render has
\* isRecording = false
ClickStart ==
    /\ ~rendered.isRecording
    /\ \E a \in Attempts :
          /\ attempts[a] = "none"
          /\ \A b \in Attempts : b < a => attempts[b] # "none"
          /\ Commit(startRecordingBegin(Cur, a))
          /\ lastOp' = Op("ClickStart", 0)
    /\ FoldIdle

GetUserMediaResolve ==
    /\ \E a \in Attempts, failAt \in FailPoints, buffer \in SessionBuffers :
          /\ attempts[a] = "pending"
          /\ Commit(startRecordingResume(Cur, a, failAt, buffer))
          /\ lastOp' = Op("GetUserMediaResolve", 0)
    /\ FoldIdle

GetUserMediaReject ==
    /\ \E a \in Attempts :
          /\ attempts[a] = "pending"
          /\ Commit(startRecordingCatch(Cur, a))
          /\ lastOp' = Op("GetUserMediaReject", 0)
    /\ FoldIdle

\* the render React scheduled for a state update made outside a click
RenderCommit ==
    /\ RenderPending(Cur)
    /\ Commit(Render(Cur))
    /\ lastOp' = Op("RenderCommit", 0)
    /\ FoldIdle

\* a click on the stop button, shown while the committed render has
\* isRecording = true; the updates of a click are rendered before it returns
ClickStop ==
    /\ rendered.isRecording
    /\ \E throws \in BOOLEAN :
          LET s1 == stopRecording(Cur, rendered.isRecording,
                                  rendered.transcript, throws)
              threw == \/ mediaRecorderRef = 0
                       \/ recorders[mediaRecorderRef] # "recording" /\ throws
          IN Commit(IF threw THEN s1 ELSE Render(s1))
    /\ lastOp' = Op("ClickStop", 0)
    /\ FoldIdle

MediaRecorderOnstop ==
    /\ \E a \in onstopQ :
          /\ Commit(mediaRecorderOnstop(Cur, a))
          /\ lastOp' = Op("MediaRecorderOnstop", 0)
    /\ FoldIdle

Listening(r) == recs[r].status \in {"started", "stopping"}

RecResult ==
    /\ nEvents < MaxRecEvents
    /\ \E r \in RecIds, results \in SessionBatches :
          \E resultIndex \in 0..(Len(results) - 1) :
             /\ Listening(r)
             /\ Commit([onresult(Cur, r, results, resultIndex) EXCEPT
                           !.nEvents = nEvents + 1,
                           !.sinceUpdate = 0,
                           !.fragmentsArrived = fragmentsArrived \/ isRecording])
             /\ lastOp' = Op("RecResult", 0)
    /\ FoldIdle

RecError ==
    /\ nEvents < MaxRecEvents
    /\ \E r \in RecIds, error \in {"no-speech", "network"}, throws \in BOOLEAN :
          /\ Listening(r)
          /\ Commit([onerror(Cur, r, error, throws) EXCEPT
                        !.nEvents = nEvents + 1])
          /\ lastOp' = Op(error, 0)
    /\ FoldIdle

\* recognizer r signals end
RecEndOf(r) ==
    /\ Listening(r)
    /\ Commit(onend([Cur EXCEPT !.recs[r].status = "idle"], r))
    /\ lastOp' = Op("RecEnd", r)
    /\ FoldIdle

RecEnd == \E r \in RecIds : RecEndOf(r)

SilenceFire ==
    /\ \E t \in timers, throws \in BOOLEAN :
          /\ t.remaining = 0
          /\ Commit(silenceTimeout(Cur, t, throws))
          /\ lastOp' = Op("SilenceFire", 0)
    /\ FoldIdle

\* the callback of setInterval in the duration effect
durationTick(s, throws) ==
    LET s1 == [s EXCEPT !.recordingDuration = s.interval.elapsed,
                        !.interval.due = FALSE]
    IN IF s.interval.elapsed >= MAX_RECORDING_DURATION
       THEN stopRecording(s1, TRUE, s.interval.transcript, throws)
       ELSE s1

IntervalTick ==
    /\ interval.on /\ interval.due
    /\ \E throws \in BOOLEAN : Commit(durationTick(Cur, throws))
    /\ lastOp' = Op("IntervalTick", 0)
    /\ FoldIdle

FrameTick ==
    /\ \E loop \in frames, buffer \in SessionBuffers :
          /\ Commit(checkAudioLevel(Cur, loop, buffer))
          /\ lastOp' = Op("FrameTick", 0)
    /\ FoldIdle

\* the clock: Step milliseconds pass. Callbacks that are due, a scheduled
\* render and a queued stop event run before more time passes, and a
\* recognizer that was told to stop has signalled end by then.
CapAge == MAX_RECORDING_DURATION + Step
CapQuiet == SILENCE_THRESHOLD + Step
Advance ==
    /\ interval.on \/ timers # {} \/ isRecording
    /\ ~RenderPending(Cur)
    /\ onstopQ = {}
    /\ \A r \in RecIds : recs[r].status # "stopping"
    /\ ~interval.due
    /\ \A t \in timers : t.remaining > 0
    /\ Commit([Cur EXCEPT
          !.timers = {[t EXCEPT !.remaining = Max(t.remaining - Step, 0)] :
                        t \in timers},
          !.interval = IF interval.on
                       THEN [interval EXCEPT
                               !.elapsed = Min(interval.elapsed + Step, CapAge),
                               !.due = TRUE]
                       ELSE interval,
          !.sinceUpdate = IF nEvents > 0
                          THEN Min(sinceUpdate + Step, CapQuiet)
                          ELSE sinceUpdate,
          !.sessionAge = IF isRecording
                         THEN Min(sessionAge + Step, CapAge)
                         ELSE sessionAge])
    /\ lastOp' = Op("Advance", 0)
    /\ FoldIdle

Next ==
    \/ ClickStart
    \/ GetUserMediaResolve
    \/ GetUserMediaReject
    \/ RenderCommit
    \/ ClickStop
    \/ MediaRecorderOnstop
    \/ RecResult
    \/ RecError
    \/ RecEnd
    \/ SilenceFire
    \/ IntervalTick
    \/ FrameTick
    \/ Advance

Spec == Init /\ [][Next]_vars

\* what the browser and React guarantee to run: a scheduled render, a queued
\* stop event, a due timer or interval callback, the end event of a
\* recognizer that was told to stop, and the passing of time. Each step is
\* named by its guard, by what it does to the queue it is taken from and by
\* lastOp, which on the behaviours of Spec singles out the steps of the
\* action; the condition is weak fairness of that action.
RenderCommitted ==
    /\ RenderPending(Cur)
    /\ rendered' = [isRecording |-> isRecording, transcript |-> transcript]
    /\ lastOp' = Op("RenderCommit", 0)

OnstopDelivered ==
    \E a \in onstopQ :
       /\ onstopQ' = onstopQ \ {a}
       /\ lastOp' = Op("MediaRecorderOnstop", 0)

SilenceFired ==
    \E t \in timers :
       /\ t.remaining = 0
       /\ timers' \in SUBSET (timers \ {t})
       /\ lastOp' = Op("SilenceFire", 0)

IntervalTicked ==
    /\ interval.on /\ interval.due
    /\ interval' = [interval EXCEPT !.due = FALSE]
    /\ lastOp' = Op("IntervalTick", 0)

RecEnded(r) ==
    /\ recs[r].status = "stopping"
    /\ recs' \in {[recs EXCEPT ![r].status = "idle"],
                  [recs EXCEPT ![r].status = "idle",
                               ![recognitionRef].status = "started"]}
    /\ lastOp' = Op("RecEnd", r)

Fairness ==
    /\ WF_<<rendered, lastOp>>(RenderCommitted)
    /\ WF_<<onstopQ, lastOp>>(OnstopDelivered)
    /\ WF_<<timers, lastOp>>(SilenceFired)
    /\ WF_<<interval, lastOp>>(IntervalTicked)
    /\ \A r \in RecIds : WF_<<recs, lastOp>>(RecEnded(r))
    /\ WF_vars(Advance)

SpecLive == Spec /\ Fairness

\* ------------------------------------------- the fold of recognizer batches
\* onresult driven directly with every batch the recognizer can deliver
\* the final fragments of a batch, concatenated in order
RECURSIVE ConcatFinals(_)
ConcatFinals(batch) ==
    IF batch = << >> THEN EmptyStr
    ELSE (IF Head(batch).isFinal THEN Head(batch).transcript ELSE EmptyStr)
            \o ConcatFinals(Tail(batch))

\* the interim fragments of a batch, concatenated in order
RECURSIVE ConcatInterims(_)
ConcatInterims(batch) ==
    IF batch = << >> THEN EmptyStr
    ELSE (IF Head(batch).isFinal THEN EmptyStr ELSE Head(batch).transcript)
            \o ConcatInterims(Tail(batch))

\* the batch contains final fragments that carry text
HasFinal(batch) == Truthy(ConcatFinals(batch))

FoldBatch ==
    /\ nFolds < MaxFoldBatches
    /\ \E results \in Batches :
          \E resultIndex \in 0..(Len(results) - 1) :
             LET batch == SubSeq(results, resultIndex + 1, Len(results)) IN
             /\ Commit([onresult(Cur, recognitionRef, results, resultIndex)
                           EXCEPT !.nEvents = nEvents + 1])
             /\ finalsSeen' = finalsSeen \o ConcatFinals(batch)
             /\ foldsWithFinal' = foldsWithFinal + (IF HasFinal(batch) THEN 1 ELSE 0)
             /\ lastFinals' = ConcatFinals(batch)
             /\ lastInterims' = ConcatInterims(batch)
    /\ nFolds' = nFolds + 1
    /\ lastOp' = Op("FoldBatch", 0)

NextFold == FoldBatch

SpecFold == Init /\ [][NextFold]_vars

\* ------------------------------------------------------- the level sampler
\* checkAudioLevel driven directly with every buffer the analyser can return
LevelSample ==
    /\ \E buffer \in Buffers : Commit(checkAudioLevel(Cur, 1, buffer))
    /\ lastOp' = Op("LevelSample", 0)
    /\ FoldIdle

NextLevel == LevelSample

SpecLevel == Init /\ [][NextLevel]_vars

\* ------------------------------------------------------------------ claims
SessionEnds == isRecording /\ ~isRecording'
Delivered(text) == [session |-> session, text |-> text]
Live == {a \in Attempts : streams[a] = "live"}
Recording == {a \in Attempts : recorders[a] = "recording"}
Running == {a \in Attempts : contexts[a] = "running"}

\* C1: whenever a Recording session ends, by whichever trigger, the
\* transcript accumulated at that moment is handed to onRecordingComplete if
\* it is non-empty after trimming, and nothing is handed over if it is empty
C1_DeliversAccumulated ==
    [][SessionEnds =>
        IF Truthy(Trim(transcript))
        THEN completed' = Append(completed, Delivered(transcript))
        ELSE completed' = completed]_vars

\* C2: teardown is idempotent: a stop trigger that arrives when the session
\* has already been stopped is a no-op: it does not call stop() on the media
\* recorder again and makes no further onRecordingComplete call
StopTriggers == {"ClickStop", "SilenceFire", "IntervalTick", "no-speech"}
C2_TeardownOnce ==
    [][(lastOp'.op \in StopTriggers /\ ~isRecording /\ session > 0)
          => (stopCalls' = stopCalls /\ completed' = completed)]_vars

\* C3: a session that is stopped before any transcript fragment arrived
\* during it makes no onRecordingComplete call
C3_EmptyGuard ==
    [][(SessionEnds /\ ~fragmentsArrived) => completed' = completed]_vars

\* C4: when the silence timer armed by an update received while Recording
\* fires, the session leaves Recording, whatever the text of the update
C4_SilenceEnds ==
    [][(lastOp'.op = "SilenceFire" /\ isRecording /\ fragmentsArrived)
          => ~isRecording']_vars

\* the same for an update whose text is a word: the timer's callback does
\* call stopRecording, the stopRecording of the render that built the handler
C4_SilenceEndsWord ==
    [][(lastOp'.op = "SilenceFire" /\ isRecording /\ fragmentsArrived
        /\ \E t \in timers : t.remaining = 0 /\ Truthy(Trim(t.text)))
          => ~isRecording']_vars

\* C5: every update cancels the pending silence timer and re-arms it for
\* SILENCE_THRESHOLD from that update: at most one timer is pending, it is
\* the one the cell holds, it is due SILENCE_THRESHOLD after the most recent
\* update, and silence never ends a session sooner than that
C5_OneTimer ==
    /\ Cardinality(timers) <= 1
    /\ \A t \in timers :
          /\ t.id = silenceTimeoutRef
          /\ t.remaining = Max(SILENCE_THRESHOLD - sinceUpdate, 0)
C5_SilenceReset ==
    /\ []C5_OneTimer
    /\ [][(lastOp'.op = "SilenceFire" /\ SessionEnds)
            => sinceUpdate >= SILENCE_THRESHOLD]_vars
C5_Witness ==
    /\ lastOp.op = "SilenceFire"
    /\ nEvents >= 2
    /\ rendered.isRecording /\ ~isRecording
    /\ sinceUpdate >= SILENCE_THRESHOLD

\* C6: a session that is still Recording MAX_RECORDING_DURATION after it
\* started has the polling tick of the duration cap due, and that tick
\* stops it
C6_DurationCap ==
    (isRecording /\ sessionAge >= MAX_RECORDING_DURATION)
       => (interval.on /\ interval.due
           /\ interval.elapsed >= MAX_RECORDING_DURATION)

\* C7: when the recognizer started for the current session signals end
\* while Recording, the feed is started again, the session stays Recording
\* and onRecordingComplete is not called
C7_AutoRestart ==
    [][(lastOp'.op = "RecEnd" /\ lastOp'.arg = sessionRec /\ isRecording)
          => /\ recs'[recognitionRef'].status = "started"
             /\ isRecording'
             /\ completed' = completed]_vars

\* C8: a start attempt that fails leaves the session as it was and has every
\* resource it opened released when startRecording returns
C8_FailedStartReleases ==
    [][\A a \in Attempts :
          (attempts[a] = "pending" /\ attempts'[a] = "failed")
             => /\ isRecording' = isRecording
                /\ streams'[a] # "live"
                /\ recorders'[a] # "recording"
                /\ contexts'[a] # "running"
                /\ a \notin frames']_vars

\* C9: at most one media stream, one media recorder and one analyzer graph
\* is live at any time
C9_OneSession ==
    /\ Cardinality(Live) <= 1
    /\ Cardinality(Recording) <= 1
    /\ Cardinality(Running) <= 1

\* C10 as stated: after a sequence of batches that all contain final
\* fragments (with text), the transcript is the concatenation of all the
\* final fragments seen so far, in batch order
C10_AllFinalsSeen ==
    (nFolds > 0 /\ foldsWithFinal = nFolds) => transcript = finalsSeen

\* C10 as the code has it: the transcript is replaced on every batch, so
\* after a batch whose final fragments carry text it is the concatenation
\* of the final fragments of that batch alone, with no interim fragment
C10_LastBatchFinals ==
    (nFolds > 0 /\ Truthy(lastFinals)) => transcript = lastFinals
C10_Witness ==
    /\ nFolds >= 2
    /\ foldsWithFinal = nFolds
    /\ Truthy(lastInterims)
    /\ finalsSeen # lastFinals
    /\ transcript = lastFinals

\* C11: after a level sample the volume is min(mean(bins) / 128, 1), so it
\* lies in [0, 1]; bins that are all 128 or more give 1.0, bins that are all
\* zero give 0, and isSpeaking is true exactly when the volume exceeds 0.15
AllBins(buffer, P(_)) == \A i \in 1..Len(buffer) : P(buffer[i])
AtCeiling(b) == b >= VOLUME_CEILING
IsZero(b) == b = 0
C11_VolumeNormalized ==
    dataArrayRef # << >> =>
       /\ 0 <= volume /\ volume <= VolumeOne
       /\ volume = IF Sum(dataArrayRef, 1) >= VOLUME_CEILING * Len(dataArrayRef)
                   THEN VolumeOne
                   ELSE Sum(dataArrayRef, 1)
       /\ AllBins(dataArrayRef, AtCeiling) => volume = VolumeOne
       /\ AllBins(dataArrayRef, IsZero) => volume = 0
       /\ isSpeaking <=> (volume * 100 > 15 * VolumeOne)
C11_Witness ==
    /\ lastOp.op = "LevelSample"
    /\ AllBins(dataArrayRef, AtCeiling)
    /\ Sum(dataArrayRef, 1) > VolumeOne
    /\ volume = VolumeOne
    /\ isSpeaking

\* C12: while the session is Recording the transcription feed is started,
\* the sampling loop is scheduled and the analyzer graph is open, and a step
\* that is not a stop trigger, in particular the render that commits
\* isRecording = true and runs the effect cleanup, leaves them so
FeedStarted == recs[recognitionRef].status = "started"
SamplingScheduled == animationFrameRef # 0 /\ animationFrameRef \in frames
GraphOpen == audioContextRef # 0 /\ contexts[audioContextRef] = "running"
MonitorsUp == FeedStarted /\ SamplingScheduled /\ GraphOpen
C12_MonitorsStayUp ==
    [][(isRecording /\ MonitorsUp /\ lastOp'.op = "RenderCommit")
          => MonitorsUp']_vars

\* C13: the transcription feed is never started or restarted while the
\* session is not Recording: a step that starts a recognizer leaves the
\* session Recording, and an end event that arrives when the session is not
\* Recording starts no recognizer
Starts(r) == recs[r].status # "started" /\ recs'[r].status = "started"
C13_NoStartOutsideRecording ==
    [][\A r \in RecIds :
          /\ Starts(r) => isRecording'
          /\ (lastOp'.op = "RecEnd" /\ ~isRecording) => ~Starts(r)]_vars

\* C14: a recognizer result or error that arrives when the session is not
\* Recording changes nothing: the transcript and the text last given to
\* onInputChange stay as they were, no silence timer is armed and no stop is
\* triggered
RecEvents == {"RecResult", "no-speech", "network"}
C14_StaleDropped ==
    [][(lastOp'.op \in RecEvents /\ ~isRecording)
          => /\ transcript' = transcript
             /\ preview' = preview
             /\ timers' = timers
             /\ silenceTimeoutRef' = silenceTimeoutRef
             /\ stopCalls' = stopCalls
             /\ completed' = completed]_vars

\* C15: the transcript is cleared at the transition out of Recording, after
\* it was delivered, so whenever the session is not Recording the
\* transcript is the empty string
C15_IdleTranscriptEmpty == ~isRecording => transcript = EmptyStr

\* C16: once a session has been stopped, it comes to rest with every
\* resource released (or a new session has started by then): no recognizer
\* listening, no silence timer pending, no sampling callback scheduled, no
\* duration interval running, no live track, no open analyzer graph and
\* recordingDuration back to 0
ReleasedAll ==
    /\ ~isRecording
    /\ \A r \in RecIds : ~Listening(r)
    /\ timers = {}
    /\ frames = {}
    /\ ~interval.on
    /\ Live = {}
    /\ Running = {}
    /\ recordingDuration = 0
C16_TeardownCompletes ==
    \A n \in 1..MaxStarts :
       (session = n /\ ~isRecording) ~> (ReleasedAll \/ session > n)

\* C17: a recognition error 'no-speech' received while Recording ends the
\* session; an error of any other kind leaves the session state, the
\* transcript, the silence timer and the duration interval unchanged
C17_ErrorKinds ==
    [][/\ (lastOp'.op = "no-speech" /\ isRecording) => ~isRecording'
       /\ lastOp'.op = "network"
             => /\ isRecording' = isRecording
                /\ transcript' = transcript
                /\ timers' = timers
                /\ interval' = interval
                /\ completed' = completed]_vars

\* the half about the other kinds of error
C17_OtherKindsIgnored ==
    [][lastOp'.op = "network"
          => /\ isRecording' = isRecording
             /\ transcript' = transcript
             /\ timers' = timers
             /\ interval' = interval
             /\ completed' = completed]_vars

\* C18: once a session has been stopped no sampling callback runs any more:
\* while the session is not Recording after a stop, no step is a level
\* sample, so volume and isSpeaking are not written
C18_NoSampleAfterStop ==
    [][(session > 0 /\ ~isRecording) => lastOp'.op # "FrameTick"]_vars

\* C19: on each batch the fragments from resultIndex onward are concatenated
\* by finality; the new transcript is the final concatenation if it carries
\* text and the interim concatenation otherwise; it replaces the old
\* transcript, and onInputChange is called once, with the same text
C19_BatchFold ==
    nFolds > 0 =>
       /\ transcript = IF Truthy(lastFinals) THEN lastFinals ELSE lastInterims
       /\ preview = transcript
       /\ nInputChanges = nFolds
C19_Witness ==
    /\ nFolds >= 2
    /\ Truthy(finalsSeen)
    /\ ~Truthy(lastFinals)
    /\ Truthy(lastInterims)
    /\ transcript = lastInterims
    /\ preview = lastInterims

\* C20: a level-monitor tick changes only volume, isSpeaking and the pending
\* animation frame (with the data array it fills); the session state, the
\* transcript, the silence timer and the duration interval stay as they
\* are, and a silence timer is armed or cancelled only by a transcript
\* update, its own expiry, a stop or a teardown
TimerIds == {t.id : t \in timers}
TimerWriters ==
    {"RecResult", "SilenceFire", "ClickStop", "IntervalTick", "no-speech",
     "MediaRecorderOnstop", "RenderCommit", "GetUserMediaResolve",
     "GetUserMediaReject"}
C20_LevelDecoupled ==
    [][/\ lastOp'.op = "FrameTick"
             => UNCHANGED <<isRecording, transcript, rendered, timers,
                            silenceTimeoutRef, interval, durationIntervalRef,
                            recordingDuration, mediaRecorderRef,
                            recognitionRef, audioContextRef, recs, streams,
                            recorders, contexts, onstopQ, attempts,
                            completed, preview, nInputChanges>>
       /\ TimerIds' # TimerIds => lastOp'.op \in TimerWriters]_vars
C20_Witness ==
    /\ lastOp.op = "FrameTick"
    /\ isRecording
    /\ isSpeaking
    /\ \E t \in timers : t.id = silenceTimeoutRef /\ t.remaining > 0

====
